---- MODULE Spec2Model ----
(***************************************************************************)
(* Multi-point-constraint assembly of dolfinx_mpc.                         *)
(*                                                                         *)
(*   SpecMat      : assemble_matrix (assemble_matrix.py), one rank's run   *)
(*   SpecVec      : assemble_vector (assemble_vector.py), one rank's run   *)
(*   SpecAssemble : either of the two                                      *)
(*   SpecGhost    : the tag-5 push of debug/bb_parallel.py, all ranks      *)
(*   SpecExchange : the three exchanges of debug/bb_parallel.py, all ranks *)
(*                                                                         *)
(* Scalars (PETSc.ScalarType) are exact rationals kept as integers in      *)
(* units of 1/(Den*Den); a coefficient is kept as its numerator over Den.  *)
(* Arrays are sequences; At and Slice give the source's 0-based indexing.  *)
(***************************************************************************)
EXTENDS Integers, Sequences, FiniteSets, TLC

VARIABLES
    spec_id,         \* which program is running: "mat", "vec", "ghost" or
                     \* "exchange"
    \* ---- inputs of assemble_matrix / assemble_vector
    form,            \* which bilinear form the kernel tabulates
    dofmap,          \* dofmap.dof_array, flattened cell -> local dofs
    global_indices,  \* indexmap.global_indices(False): local slot -> global index
    mpc,             \* mpc_data: the constraint table, packed as in the source
    bc_array,        \* local indices of the Dirichlet dofs
    \* ---- state of assemble_matrix
    pc,              \* position in assemble_matrix
    cell_index,      \* loop variable of assemble_matrix_numba
    slave_cell_index,\* running counter of assemble_matrix_numba
    A,               \* the global matrix, by global indices
    log,             \* per cell, the insertions made for it, in order
    diag_dofs,       \* the global dofs whose diagonal this rank has overwritten
    \* ---- state of assemble_vector
    active_cells,    \* integral_domains of the cell integral
    facet_info,      \* pack_facet_info: rows (cell_index, local_facet)
    b,               \* the local form of the vector, by local indices
    it,              \* position of the running loop
    vlog,            \* per pass of the MPC loops: cell, index used, effect on b
    \* ---- state of the ghost push of bb_parallel.py, one entry per rank
    layout,          \* per shared slave: owner, ghosting ranks, gathered masters
    eager,           \* whether MPI completes a send before its receive is posted
    possible_recv,   \* possible_recv of each rank: the ranks it sent slaves to
    owners,          \* owners of each rank: the ranks it received slaves from
    gpc,             \* position of each rank in the script
    share_masters,   \* share_masters of each rank: dest -> slave -> master data
    sent,            \* how many of its sends each rank has completed
    chan,            \* messages sent and not yet received
    received,        \* the ranks each rank has received from in its running
                     \* loop of receives
    ghost_masters,   \* ghost_masters of each rank: slave -> master data
    flat             \* what flatten_ghosts returned on each rank

matvars == <<pc, cell_index, slave_cell_index, A, log, diag_dofs>>

vecvars == <<active_cells, facet_info, b, it, vlog>>

ghostvars == <<layout, eager, possible_recv, owners, gpc, share_masters, sent,
               chan, received, ghost_masters, flat>>

vars == <<spec_id, form, dofmap, global_indices, mpc, bc_array,
          pc, cell_index, slave_cell_index, A, log, diag_dofs,
          active_cells, facet_info, b, it, vlog,
          layout, eager, possible_recv, owners, gpc, share_masters, sent,
          chan, received, ghost_masters, flat>>

----------------------------------------------------------------------------
\* Bounds of the model

NumCells == 2
MaxSlaves == 2
MaxMasters == 2
Den == 2

\* the ranks of the communicator of the ghost push
NumProcs == 3

\* the slaves of the ghost push, owned and ghosted taken together
NumSharedSlaves == 2

----------------------------------------------------------------------------
\* Arrays and scalars

At(arr, i) == arr[i + 1]

Slice(arr, lo, hi) == SubSeq(arr, lo + 1, hi)

Range(arr) == {arr[i] : i \in 1..Len(arr)}

RECURSIVE SetToSeq(_)
SetToSeq(S) ==
    IF S = {} THEN <<>>
    ELSE LET x == CHOOSE y \in S : \A z \in S : y <= z
         IN <<x>> \o SetToSeq(S \ {x})

RECURSIVE Concat(_)
Concat(ss) == IF ss = <<>> THEN <<>> ELSE Head(ss) \o Concat(Tail(ss))

RECURSIVE SumSeq(_)
SumSeq(s) == IF s = <<>> THEN 0 ELSE Head(s) + SumSeq(Tail(s))

\* the scalar 1.0
ScalarOne == Den * Den

\* coeff * v, for a coefficient numerator coeff
CoeffMul(coeff, v) == (coeff * v) \div Den

mode == "add"

insert == "insert"

----------------------------------------------------------------------------
\* Mesh, dofmap and kernel

num_dofs_per_element == 3

Cells == 0..(NumCells - 1)
NumDofs == num_dofs_per_element + 1
Dofs == 0..(NumDofs - 1)
Loc == 0..(num_dofs_per_element - 1)

\* the faces of a simplex on NumDofs vertices: cell c holds the local dofs
\* c, c+1, .. (cyclically), the odd cells listing them in the opposite
\* orientation
DofArray ==
    Concat([c \in 1..NumCells |->
              [k \in 1..num_dofs_per_element |->
                  IF (c - 1) % 2 = 0 THEN ((c - 1) + (k - 1)) % NumDofs
                  ELSE ((c - 1) + (num_dofs_per_element - k)) % NumDofs]])

\* one rank of a parallel run: the owned slots follow the rank's offset, the
\* last slot is a ghost owned by a lower rank
GlobalIndices ==
    [i \in 1..NumDofs |-> IF i < NumDofs THEN NumDofs + (i - 1) ELSE 1]

\* indexmap.local_range of that rank: the global indices it owns
local_range == <<NumDofs, NumDofs + (NumDofs - 1)>>

IsOwned(g) == local_range[1] <= g /\ g < local_range[2]

Forms == {"symmetric", "nonsymmetric"}

\* kernel(...): the local matrix tabulated for a cell
kernel(f, cell) ==
    [i \in Loc |-> [j \in Loc |->
        ScalarOne *
        (IF f = "symmetric"
         THEN (IF i = j THEN 4 + cell + i ELSE -(1 + i + j))
         ELSE (num_dofs_per_element * i + j + 1 + cell))]]

IsSymmetric(M) == \A i \in Loc, j \in Loc : M[i][j] = M[j][i]

local_pos_of(dm, cell) ==
    Slice(dm, num_dofs_per_element * cell,
          num_dofs_per_element * cell + num_dofs_per_element)

----------------------------------------------------------------------------
\* The constraint table (MultiPointConstraint), packed as mpc_data

RECURSIVE OffsetsOf(_, _)
OffsetsOf(lens, from) ==
    IF lens = <<>> THEN <<from>>
    ELSE <<from>> \o OffsetsOf(Tail(lens), from + Head(lens))

CellDofs(cell) == Range(local_pos_of(DofArray, cell))

\* masters of slave s: retained dofs, or s alone (a fixed dof)
MasterLists(S, s) ==
    {<<s>>} \cup
    {SetToSeq(M) : M \in {X \in SUBSET (Dofs \ S) :
                              Cardinality(X) >= 1 /\ Cardinality(X) <= MaxMasters}}

\* coefficient numerators: for one master 0, 1/Den and 1; for several
\* masters all 1/Den, a partition of unity, all 1, and unequal ones
CoeffLists(n) ==
    IF n = 1 THEN {<<0>>, <<1>>, <<Den>>}
    ELSE {[k \in 1..n |-> 1],
          [k \in 1..n |-> IF k = 1 /\ Den >= n THEN Den - (n - 1) ELSE 1],
          [k \in 1..n |-> Den],
          [k \in 1..n |-> IF k = 1 THEN 1 ELSE Den]}

ConstraintsFor(S, s) ==
    UNION {{[masters |-> m, coeffs |-> c] : c \in CoeffLists(Len(m))} :
              m \in MasterLists(S, s)}

Tables(S) ==
    {T \in [S -> UNION {ConstraintsFor(S, s) : s \in S}] :
        \A s \in S : T[s] \in ConstraintsFor(S, s)}

SlaveSets == {S \in SUBSET Dofs : Cardinality(S) <= MaxSlaves}

\* slave_cells in the order given by cellorder, with the rows of the
\* cell-to-slave map in the same order
PackMpc(S, T, cellorder) ==
    LET sl == SetToSeq(S)
        rows == [i \in 1..Len(cellorder) |->
                    LET in_cell == SetToSeq(S \cap CellDofs(cellorder[i]))
                    IN [k \in 1..Len(in_cell) |-> At(GlobalIndices, in_cell[k])]]
    IN [slaves |-> [i \in 1..Len(sl) |-> At(GlobalIndices, sl[i])],
        masters_local |-> Concat([i \in 1..Len(sl) |-> T[sl[i]].masters]),
        coefficients |-> Concat([i \in 1..Len(sl) |-> T[sl[i]].coeffs]),
        offsets |-> OffsetsOf([i \in 1..Len(sl) |-> Len(T[sl[i]].masters)], 0),
        slave_cells |-> cellorder,
        cell_to_slave |-> Concat(rows),
        c_to_s_off |-> OffsetsOf([i \in 1..Len(rows) |-> Len(rows[i])], 0)]

SlaveCellsOf(S) == SetToSeq({c \in Cells : S \cap CellDofs(c) # {}})

MpcTables ==
    UNION {{PackMpc(S, T, SlaveCellsOf(S)) : T \in Tables(S)} : S \in SlaveSets}

\* Dirichlet dofs are never masters (docstring of assemble_matrix)
BcArrays(m) ==
    {<<>>} \cup {<<d>> : d \in Dofs \ Range(m.masters_local)}

----------------------------------------------------------------------------
\* Insertion into the global matrix

in_numpy_array(array, value) == \E i \in 1..Len(array) : array[i] = value

\* set_values_local(A, nrow, rows, ncol, cols, vals, mode): the entries of
\* the block, row by row; vals[i][j] belongs to (rows[i], cols[j])
set_values_local(rows, cols, vals, md, kind) ==
    Concat([i \in 1..Len(rows) |->
              [j \in 1..Len(cols) |->
                  [row |-> rows[i], col |-> cols[j], val |-> vals[i][j],
                   mode |-> md, kind |-> kind]]])

ZeroMatrix(gi) == [r \in Range(gi) |-> [c \in Range(gi) |-> 0]]

\* set_values(A, 1, row, 1, col, val, mode): one entry, by global indices
set_values(M, r, c, val, md) ==
    [M EXCEPT ![r][c] = IF md = "add" THEN @ + val ELSE val]

\* one entry reaching the matrix through the local-to-global map
ApplyInsertion(M, gi, e) ==
    set_values(M, At(gi, e.row), At(gi, e.col), e.val, e.mode)

RECURSIVE ApplyAll(_, _, _)
ApplyAll(M, gi, ins) ==
    IF ins = <<>> THEN M
    ELSE ApplyAll(ApplyInsertion(M, gi, Head(ins)), gi, Tail(ins))

----------------------------------------------------------------------------
\* assemble_matrix_numba, Dirichlet rows and columns

\* the rows of the Dirichlet dofs zeroed and the columns left
DirichletZeroRows(A_local, local_pos, bcs) ==
    [i \in Loc |-> [j \in Loc |->
        IF in_numpy_array(bcs, At(local_pos, i)) THEN 0 ELSE A_local[i][j]]]

DirichletZero(A_local, local_pos, bcs) ==
    [i \in Loc |-> [j \in Loc |->
        IF in_numpy_array(bcs, At(local_pos, i))
           \/ in_numpy_array(bcs, At(local_pos, j))
        THEN 0 ELSE A_local[i][j]]]

----------------------------------------------------------------------------
\* modify_mpc_cell

\* the last position returned where the assertion fails
slave_global_to_local_pos_unchecked(slave, gi, local_pos) ==
    LET hits == {k \in Loc : At(gi, At(local_pos, k)) = slave}
    IN IF hits = {} THEN num_dofs_per_element - 1
       ELSE CHOOSE k \in hits : \A h \in hits : k <= h

\* -1 stands for the failed assertion
slave_global_to_local_pos(slave, gi, local_pos) ==
    LET hits == {k \in Loc : At(gi, At(local_pos, k)) = slave}
    IN IF hits = {} THEN -1 ELSE CHOOSE k \in hits : \A h \in hits : k <= h

cell_slaves_of(m, sci) ==
    Slice(m.cell_to_slave, At(m.c_to_s_off, sci), At(m.c_to_s_off, sci + 1))

\* positions in slaves of the slaves listed for the cell, in slaves' order
global_slave_indices_of(m, sci) ==
    SetToSeq({g \in 0..(Len(m.slaves) - 1) :
                 in_numpy_array(cell_slaves_of(m, sci), At(m.slaves, g))})

masters_of(m, slave_index) ==
    Slice(m.masters_local, At(m.offsets, slave_index), At(m.offsets, slave_index + 1))

coeffs_of(m, slave_index) ==
    Slice(m.coefficients, At(m.offsets, slave_index), At(m.offsets, slave_index + 1))

\* the slave's row taken where A_row takes the slave's column
RowContributionTransposed(coeff, A_local_copy, slave_local) ==
    [k \in Loc |-> IF k = slave_local THEN 0
                   ELSE CoeffMul(coeff, A_local_copy[slave_local][k])]

\* A_row: the slave's column scaled, without the slave's own entry
RowContribution(coeff, A_local_copy, slave_local) ==
    [k \in Loc |-> IF k = slave_local THEN 0
                   ELSE CoeffMul(coeff, A_local_copy[k][slave_local])]

\* the slave's row moved without its coefficient
ColContributionUnscaled(coeff, A_local_copy, slave_local) ==
    [k \in Loc |-> IF k = slave_local THEN 0
                   ELSE A_local_copy[slave_local][k]]

\* A_col: the slave's row scaled, without the slave's own entry
ColContribution(coeff, A_local_copy, slave_local) ==
    [k \in Loc |-> IF k = slave_local THEN 0
                   ELSE CoeffMul(coeff, A_local_copy[slave_local][k])]

\* the master diagonal with the coefficient taken once
MasterContributionLinear(coeff, A_local_copy, slave_local) ==
    CoeffMul(coeff, A_local_copy[slave_local][slave_local])

\* A_master = coeff * A_row[slave_local], taken before A_row is cut
MasterContribution(coeff, A_local_copy, slave_local) ==
    CoeffMul(coeff, CoeffMul(coeff, A_local_copy[slave_local][slave_local]))

\* the row of the slave zeroed and its column left
RemoveLocalRow(A_local, slave_local) ==
    [i \in Loc |-> [j \in Loc |->
        IF i = slave_local THEN 0 ELSE A_local[i][j]]]

RemoveLocal(A_local, slave_local) ==
    [i \in Loc |-> [j \in Loc |->
        IF i = slave_local \/ j = slave_local THEN 0 ELSE A_local[i][j]]]

\* the two insertions of one (master, other master) pair
CrossInsert(master, o_master, A_m0m1, A_m1m0) ==
    set_values_local(<<master>>, <<o_master>>, <<<<A_m0m1>>>>, mode, "cross")
    \o set_values_local(<<o_master>>, <<master>>, <<<<A_m1m0>>>>, mode, "cross")

\* the loop over the masters of one other slave; w carries A_row, A_col and
\* the insertions made
RECURSIVE CrossMasters(_, _, _)
CrossMasters(j, cx, w) ==
    IF j >= Len(cx.o_masters) THEN w
    ELSE LET o_master == At(cx.o_masters, j)
             o_coeff == At(cx.o_coeffs, j)
             A_m0m1 == CoeffMul(o_coeff, w.A_row[cx.o_slave_local])
             A_m1m0 == CoeffMul(o_coeff, w.A_col[cx.o_slave_local])
         IN CrossMasters(j + 1, cx,
               [w EXCEPT !.A_row[cx.o_slave_local] = 0,
                         !.A_col[cx.o_slave_local] = 0,
                         !.ins = IF cx.o_slave_index > cx.s_0
                                 THEN @ \o CrossInsert(cx.master, o_master,
                                                       A_m0m1, A_m1m0)
                                 ELSE @])

\* the loop over the other slaves of the cell
RECURSIVE CrossSlaves(_, _, _, _, _)
CrossSlaves(o_slave_index, q, m, gi, w) ==
    IF o_slave_index >= Len(q.gsi) \/ ~w.ok THEN w
    ELSE LET other_slave == At(q.gsi, o_slave_index)
         IN IF other_slave = q.slave_index
            THEN CrossSlaves(o_slave_index + 1, q, m, gi, w)
            ELSE LET o_slave_local ==
                         slave_global_to_local_pos(At(m.slaves, other_slave),
                                                   gi, q.local_pos)
                 IN IF o_slave_local = -1 THEN [w EXCEPT !.ok = FALSE]
                    ELSE CrossSlaves(o_slave_index + 1, q, m, gi,
                            CrossMasters(0,
                               [o_masters |-> masters_of(m, other_slave),
                                o_coeffs |-> coeffs_of(m, other_slave),
                                o_slave_local |-> o_slave_local,
                                o_slave_index |-> o_slave_index,
                                s_0 |-> q.s_0,
                                master |-> q.master], w))

\* contributions for different masters of the same slave
RECURSIVE SameSlaveInsert(_, _, _, _, _)
SameSlaveInsert(e, q, cell_masters, cell_coeffs, A_local_copy) ==
    IF e >= Len(cell_masters) THEN <<>>
    ELSE LET o_master == At(cell_masters, e)
             o_coeff == At(cell_coeffs, e)
             A_c0 == CoeffMul(q.coeff, CoeffMul(o_coeff,
                         A_local_copy[q.slave_local][q.slave_local]))
             A_c1 == CoeffMul(q.coeff, CoeffMul(o_coeff,
                         A_local_copy[q.slave_local][q.slave_local]))
         IN set_values_local(<<q.master>>, <<o_master>>, <<<<A_c0>>>>, mode, "same")
            \o set_values_local(<<o_master>>, <<q.master>>, <<<<A_c1>>>>, mode, "same")
            \o SameSlaveInsert(e + 1, q, cell_masters, cell_coeffs, A_local_copy)

\* the master diagonal written with the mode of the slave diagonal
MoveInsertOverwrite(master, mpc_pos, A_row, A_col, A_master) ==
    set_values_local(mpc_pos, <<master>>, [k \in 1..Len(mpc_pos) |-> <<A_row[k - 1]>>],
                     mode, "row")
    \o set_values_local(<<master>>, mpc_pos, <<[k \in 1..Len(mpc_pos) |-> A_col[k - 1]]>>,
                        mode, "col")
    \o set_values_local(<<master>>, <<master>>, <<<<A_master>>>>, insert, "master")

\* the row, the column and the master diagonal of one master
MoveInsert(master, mpc_pos, A_row, A_col, A_master) ==
    set_values_local(mpc_pos, <<master>>, [k \in 1..Len(mpc_pos) |-> <<A_row[k - 1]>>],
                     mode, "row")
    \o set_values_local(<<master>>, mpc_pos, <<[k \in 1..Len(mpc_pos) |-> A_col[k - 1]]>>,
                        mode, "col")
    \o set_values_local(<<master>>, <<master>>, <<<<A_master>>>>, mode, "master")

\* the loop over the masters of one slave; st carries A_local, the
\* insertions made and whether every assertion held
RECURSIVE MasterLoop(_, _, _, _, _)
MasterLoop(d, p, m, gi, st) ==
    IF d >= Len(p.cell_masters) \/ ~st.ok THEN st
    ELSE LET master == At(p.cell_masters, d)
             coeff == At(p.cell_coeffs, d)
             q == [gsi |-> p.gsi, s_0 |-> p.s_0, slave_index |-> p.slave_index,
                   slave_local |-> p.slave_local, local_pos |-> p.local_pos,
                   master |-> master, coeff |-> coeff]
             A_master == MasterContribution(coeff, p.A_local_copy, p.slave_local)
             w == CrossSlaves(0, q, m, gi,
                     [A_row |-> RowContribution(coeff, p.A_local_copy, p.slave_local),
                      A_col |-> ColContribution(coeff, p.A_local_copy, p.slave_local),
                      ins |-> st.ins, ok |-> TRUE])
             mpc_pos == [p.local_pos EXCEPT ![p.slave_local + 1] = master]
         IN IF ~w.ok
            THEN [A_local |-> RemoveLocal(st.A_local, p.slave_local),
                  ins |-> w.ins, ok |-> FALSE]
            ELSE MasterLoop(d + 1, p, m, gi,
                    [A_local |-> RemoveLocal(st.A_local, p.slave_local),
                     ins |-> w.ins
                             \o MoveInsert(master, mpc_pos, w.A_row, w.A_col, A_master)
                             \o SameSlaveInsert(d + 1, q, p.cell_masters,
                                                p.cell_coeffs, p.A_local_copy),
                     ok |-> TRUE])

\* the loop over the slaves of the cell
RECURSIVE SlaveLoop(_, _, _, _, _)
SlaveLoop(s_0, c, m, gi, st) ==
    IF s_0 >= Len(c.gsi) \/ ~st.ok THEN st
    ELSE LET slave_index == At(c.gsi, s_0)
             slave_local == slave_global_to_local_pos(At(m.slaves, slave_index),
                                                      gi, c.local_pos)
         IN IF slave_local = -1 THEN [st EXCEPT !.ok = FALSE]
            ELSE SlaveLoop(s_0 + 1, c, m, gi,
                    MasterLoop(0,
                       [gsi |-> c.gsi, s_0 |-> s_0, slave_index |-> slave_index,
                        slave_local |-> slave_local, local_pos |-> c.local_pos,
                        A_local_copy |-> c.A_local_copy,
                        cell_masters |-> masters_of(m, slave_index),
                        cell_coeffs |-> coeffs_of(m, slave_index)],
                       m, gi, st))

\* returns the reduced A_local, the insertions made on the masters and
\* whether every assertion held
modify_mpc_cell(sci, A_local, local_pos, m, gi) ==
    SlaveLoop(0,
       [gsi |-> global_slave_indices_of(m, sci), local_pos |-> local_pos,
        A_local_copy |-> A_local],
       m, gi, [A_local |-> A_local, ins |-> <<>>, ok |-> TRUE])

----------------------------------------------------------------------------
\* assemble_matrix

\* the pass with the Dirichlet rows and columns zeroed after modify_mpc_cell
CellInsertionsZeroLast(cell, sci, f, dm, gi, m, bcs) ==
    LET local_pos == local_pos_of(dm, cell)
        A_kernel == kernel(f, cell)
        r == IF in_numpy_array(m.slave_cells, cell)
             THEN modify_mpc_cell(sci, A_kernel, local_pos, m, gi)
             ELSE [A_local |-> A_kernel, ins |-> <<>>, ok |-> TRUE]
        A_bc == IF Len(bcs) > 0 THEN DirichletZero(r.A_local, local_pos, bcs)
                ELSE r.A_local
    IN IF r.ok
       THEN [ins |-> r.ins \o
                     set_values_local(local_pos, local_pos,
                        [i \in 1..num_dofs_per_element |->
                           [j \in 1..num_dofs_per_element |-> A_bc[i - 1][j - 1]]],
                        mode, "local"),
             ok |-> TRUE]
       ELSE [ins |-> r.ins, ok |-> FALSE]

\* what one pass of the cell loop inserts, and whether it ran to its end
CellInsertions(cell, sci, f, dm, gi, m, bcs) ==
    LET local_pos == local_pos_of(dm, cell)
        A_kernel == kernel(f, cell)
        A_bc == IF Len(bcs) > 0 THEN DirichletZero(A_kernel, local_pos, bcs)
                ELSE A_kernel
        r == IF in_numpy_array(m.slave_cells, cell)
             THEN modify_mpc_cell(sci, A_bc, local_pos, m, gi)
             ELSE [A_local |-> A_bc, ins |-> <<>>, ok |-> TRUE]
    IN IF r.ok
       THEN [ins |-> r.ins \o
                     set_values_local(local_pos, local_pos,
                        [i \in 1..num_dofs_per_element |->
                           [j \in 1..num_dofs_per_element |-> r.A_local[i - 1][j - 1]]],
                        mode, "local"),
             ok |-> TRUE]
       ELSE [ins |-> r.ins, ok |-> FALSE]

\* insertions addressed by global indices, in their order
RECURSIVE ApplyGlobal(_, _)
ApplyGlobal(M, ins) ==
    IF ins = <<>> THEN M
    ELSE ApplyGlobal(set_values(M, Head(ins).row, Head(ins).col, Head(ins).val,
                                Head(ins).mode),
                     Tail(ins))

\* the slave diagonal written for the owned slaves alone
diagonal_insertions_owned(dofs) ==
    SelectSeq([i \in 1..Len(dofs) |->
                  [row |-> dofs[i], col |-> dofs[i], val |-> ScalarOne,
                   mode |-> insert]],
              LAMBDA e : IsOwned(e.row))

\* the loop of add_diagonal: one set_values per entry of dofs, 1 at (dof, dof)
diagonal_insertions(dofs) ==
    [i \in 1..Len(dofs) |->
        [row |-> dofs[i], col |-> dofs[i], val |-> ScalarOne, mode |-> insert]]

\* the slave diagonal added to and not overwritten
add_diagonal_additive(M, dofs) ==
    ApplyGlobal(M, [i \in 1..Len(dofs) |->
                      [diagonal_insertions(dofs)[i] EXCEPT !.mode = "add"]])

add_diagonal(M, dofs) ==
    ApplyGlobal(M, diagonal_insertions(dofs))

\* dolfinx.cpp.fem.add_diagonal(A, V, bcs, 1.0)
RECURSIVE fem_add_diagonal(_, _, _)
fem_add_diagonal(M, gi, bcs) ==
    IF bcs = <<>> THEN M
    ELSE fem_add_diagonal(
            set_values(M, At(gi, Head(bcs)), At(gi, Head(bcs)), ScalarOne, "add"),
            gi, Tail(bcs))

InitMat ==
    /\ spec_id = "mat"
    /\ form \in Forms
    /\ dofmap = DofArray
    /\ global_indices = GlobalIndices
    /\ mpc \in MpcTables
    /\ bc_array \in BcArrays(mpc)
    /\ pc = "cells"
    /\ cell_index = 0
    /\ slave_cell_index = 0
    /\ A = ZeroMatrix(global_indices)
    /\ log = [c \in Cells |-> <<>>]
    /\ diag_dofs = {}
    /\ active_cells = <<>>
    /\ facet_info = <<>>
    /\ b = <<>>
    /\ it = 0
    /\ vlog = <<>>
    /\ layout = <<>>
    /\ possible_recv = <<>>
    /\ owners = <<>>
    /\ eager = TRUE
    /\ gpc = <<>>
    /\ share_masters = <<>>
    /\ sent = <<>>
    /\ chan = {}
    /\ received = <<>>
    /\ ghost_masters = <<>>
    /\ flat = <<>>

\* one pass of the loop over all cells of assemble_matrix_numba
AssembleCell ==
    /\ spec_id = "mat"
    /\ pc = "cells"
    /\ cell_index < NumCells
    /\ LET r == CellInsertions(cell_index, slave_cell_index, form, dofmap,
                               global_indices, mpc, bc_array)
       IN /\ A' = ApplyAll(A, global_indices, r.ins)
          /\ log' = [log EXCEPT ![cell_index] = r.ins]
          /\ pc' = IF r.ok THEN "cells" ELSE "aborted"
    /\ slave_cell_index' = IF in_numpy_array(mpc.slave_cells, cell_index)
                           THEN slave_cell_index + 1 ELSE slave_cell_index
    /\ cell_index' = cell_index + 1
    /\ UNCHANGED <<spec_id, form, dofmap, global_indices, mpc, bc_array, diag_dofs>>
    /\ UNCHANGED vecvars
    /\ UNCHANGED ghostvars

\* the end of the loop and A.assemble()
FinishCells ==
    /\ spec_id = "mat"
    /\ pc = "cells"
    /\ cell_index = NumCells
    /\ pc' = "assembled"
    /\ UNCHANGED <<spec_id, form, dofmap, global_indices, mpc, bc_array,
                   cell_index, slave_cell_index, A, log, diag_dofs>>
    /\ UNCHANGED vecvars
    /\ UNCHANGED ghostvars

\* add_diagonal(A.handle, slaves) and A.assemble()
AddDiagonal ==
    /\ spec_id = "mat"
    /\ pc = "assembled"
    /\ A' = add_diagonal(A, mpc.slaves)
    /\ diag_dofs' = diag_dofs \cup
                       {e.row : e \in Range(diagonal_insertions(mpc.slaves))}
    /\ pc' = "diagonal"
    /\ UNCHANGED <<spec_id, form, dofmap, global_indices, mpc, bc_array,
                   cell_index, slave_cell_index, log>>
    /\ UNCHANGED vecvars
    /\ UNCHANGED ghostvars

\* the diagonal of the Dirichlet rows, A.assemble() and the return
AddDiagonalBC ==
    /\ spec_id = "mat"
    /\ pc = "diagonal"
    /\ A' = fem_add_diagonal(A, global_indices, bc_array)
    /\ pc' = "done"
    /\ UNCHANGED <<spec_id, form, dofmap, global_indices, mpc, bc_array,
                   cell_index, slave_cell_index, log, diag_dofs>>
    /\ UNCHANGED vecvars
    /\ UNCHANGED ghostvars

NextMat == AssembleCell \/ FinishCells \/ AddDiagonal \/ AddDiagonalBC

SpecMat == InitMat /\ [][NextMat]_vars

----------------------------------------------------------------------------
\* Properties of assemble_matrix

Orderings(S) ==
    {f \in [1..Cardinality(S) -> S] : \A i, j \in 1..Cardinality(S) :
                                         f[i] = f[j] => i = j}

\* numpy.flatnonzero(array == value)[0]
PositionIn(array, value) ==
    CHOOSE i \in 0..(Len(array) - 1) :
        /\ At(array, i) = value
        /\ \A h \in 0..(Len(array) - 1) : At(array, h) = value => i <= h

IsSlaveCell(cell) == in_numpy_array(mpc.slave_cells, cell)

\* the cells the loop has gone through
Assembled(cell) == spec_id = "mat" /\ pc # "aborted" /\ cell < cell_index

\* the local dofs of the cell that are slaves, by the list of slaves alone
SlaveDofsIn(cell) ==
    {d \in CellDofs(cell) : in_numpy_array(mpc.slaves, At(global_indices, d))}

SlaveIndexOf(d) == PositionIn(mpc.slaves, At(global_indices, d))

NoDirichletIn(cell) ==
    \A d \in CellDofs(cell) : ~in_numpy_array(bc_array, d)

\* what was added to the matrix for the cell, accumulated
Delta(cell) == ApplyAll(ZeroMatrix(global_indices), global_indices, log[cell])

AsBlock(M) ==
    [i \in 1..num_dofs_per_element |->
        [j \in 1..num_dofs_per_element |-> M[i - 1][j - 1]]]

SumOfEntries(M) ==
    SumSeq(Concat(AsBlock(M)))

SumInserted(cell) == SumSeq([i \in 1..Len(log[cell]) |-> log[cell][i].val])

\* one slave, one master other than the slave, coefficient 1
SingleUnitSlaveCell(cell) ==
    /\ Cardinality(SlaveDofsIn(cell)) = 1
    /\ \A d \in SlaveDofsIn(cell) :
          /\ Len(masters_of(mpc, SlaveIndexOf(d))) = 1
          /\ coeffs_of(mpc, SlaveIndexOf(d)) = <<Den>>
          /\ masters_of(mpc, SlaveIndexOf(d)) # <<d>>

\* the unconstrained assembly of the kernel's matrix with the slave renamed
\* to its master in the cell's dof list
RenamedAssembly(cell) ==
    LET lp == local_pos_of(dofmap, cell)
        pos == [k \in 1..Len(lp) |->
                   IF lp[k] \in SlaveDofsIn(cell)
                   THEN masters_of(mpc, SlaveIndexOf(lp[k]))[1] ELSE lp[k]]
    IN ApplyAll(ZeroMatrix(global_indices), global_indices,
                set_values_local(pos, pos, AsBlock(kernel(form, cell)), "add", "local"))

\* C1: a cell with exactly one slave, constrained to one other dof with
\* coefficient 1 and holding no Dirichlet dof, adds to the matrix, entry by
\* entry, what the unconstrained assembly adds with the slave renamed to the
\* master, also for a non-symmetric local matrix.
C1_RenamingEquivalence ==
    \A cell \in Cells :
        (Assembled(cell) /\ SingleUnitSlaveCell(cell) /\ NoDirichletIn(cell))
            => Delta(cell) = RenamedAssembly(cell)

C1_Witness ==
    \E cell \in Cells :
        /\ Assembled(cell) /\ SingleUnitSlaveCell(cell) /\ NoDirichletIn(cell)
        /\ form = "nonsymmetric"
        /\ \E d \in SlaveDofsIn(cell) :
              masters_of(mpc, SlaveIndexOf(d))[1] \in CellDofs(cell)

CoefficientsSumToOne(cell) ==
    \A d \in SlaveDofsIn(cell) : SumSeq(coeffs_of(mpc, SlaveIndexOf(d))) = Den

\* no slave of the cell is its own master
NoFixedDofIn(cell) ==
    \A d \in SlaveDofsIn(cell) : ~in_numpy_array(masters_of(mpc, SlaveIndexOf(d)), d)

\* C2: in a slave cell whose slaves each have coefficients summing to 1, the
\* values inserted for the cell (reduced block and every master-indexed
\* insertion) sum to the sum of the entries of the kernel's local matrix,
\* for any number of slaves and of masters per slave (stated for cells
\* without Dirichlet dofs and without fixed dofs).
C2_Conservation ==
    \A cell \in Cells :
        (Assembled(cell) /\ IsSlaveCell(cell) /\ NoDirichletIn(cell)
         /\ NoFixedDofIn(cell) /\ CoefficientsSumToOne(cell))
            => SumInserted(cell) = SumOfEntries(kernel(form, cell))

\* the same with at most one master for every slave but the only one
C2_ConservationSingle ==
    \A cell \in Cells :
        (Assembled(cell) /\ IsSlaveCell(cell) /\ NoDirichletIn(cell)
         /\ CoefficientsSumToOne(cell)
         /\ (Cardinality(SlaveDofsIn(cell)) > 1 =>
                \A d \in SlaveDofsIn(cell) : Len(masters_of(mpc, SlaveIndexOf(d))) = 1))
            => SumInserted(cell) = SumOfEntries(kernel(form, cell))

Slaves == Range(mpc.slaves)

GDofs == Range(global_indices)

\* C4: with symmetric local matrices the matrix is symmetric once all cells
\* are in, and stays so through the diagonal passes, for any constraint
\* table.
C4_SymmetryPreserved ==
    (spec_id = "mat" /\ form = "symmetric" /\ pc \in {"assembled", "diagonal", "done"})
        => \A i \in GDofs, j \in GDofs :
              (i = j /\ i \in Slaves) \/ A[i][j] = A[j][i]

C4_Witness ==
    /\ spec_id = "mat" /\ form = "symmetric" /\ pc = "done"
    /\ \E cell \in Cells :
          /\ Cardinality(SlaveDofsIn(cell)) > 1
          /\ NoFixedDofIn(cell)
          /\ \E d \in SlaveDofsIn(cell) : Len(masters_of(mpc, SlaveIndexOf(d))) > 1
          /\ \E i \in 1..Len(log[cell]) :
                log[cell][i].kind = "cross" /\ log[cell][i].val # 0

\* C5: the slave-diagonal pass is idempotent: applied again to the matrix it
\* produced (by this rank or by another one listing the same slaves) it
\* changes no entry.
C5_DiagonalIdempotent ==
    (spec_id = "mat" /\ pc = "diagonal") => add_diagonal(A, mpc.slaves) = A

C5_Witness ==
    /\ spec_id = "mat" /\ pc = "diagonal"
    /\ Len(mpc.slaves) > 1
    /\ \E i \in GDofs, j \in GDofs : i # j /\ A[i][j] # 0

\* C7: only the rank that owns a slave overwrites its diagonal; a rank that
\* holds the slave as a ghost does not.
C7_OnlyOwnerInserts ==
    spec_id = "mat" => \A g \in diag_dofs : IsOwned(g)

\* C7, as the code has it: every rank overwrites the diagonal of every slave
\* of its table, owned or ghost; the entry is 1 however many ranks do so.
C7_EveryListingRankInserts ==
    (spec_id = "mat" /\ pc \in {"diagonal", "done"})
        => /\ diag_dofs = Slaves
           /\ pc = "diagonal" => \A g \in Slaves : A[g][g] = ScalarOne

C7_Witness ==
    /\ spec_id = "mat" /\ pc = "diagonal"
    /\ \E g \in diag_dofs : ~IsOwned(g)
    /\ \E g \in diag_dofs : IsOwned(g)

\* C8: on return every slave has a unit diagonal and an otherwise zero row
\* and column, for every constraint table and every set of Dirichlet dofs
\* (stated for Dirichlet dofs that are not slaves themselves).
C8_SlaveRowsEliminated ==
    (spec_id = "mat" /\ pc = "done"
     /\ (\A i \in 1..Len(bc_array) : At(global_indices, bc_array[i]) \notin Slaves))
        => \A s \in Slaves :
              /\ A[s][s] = ScalarOne
              /\ \A j \in GDofs \ {s} : A[s][j] = 0 /\ A[j][s] = 0

\* the same for tables without fixed dofs and Dirichlet dofs that are no slaves
C8_Restricted ==
    (spec_id = "mat" /\ pc = "done"
     /\ (\A cell \in Cells : NoFixedDofIn(cell))
     /\ (\A i \in 1..Len(bc_array) : At(global_indices, bc_array[i]) \notin Slaves))
        => \A s \in Slaves :
              /\ A[s][s] = ScalarOne
              /\ \A j \in GDofs \ {s} : A[s][j] = 0 /\ A[j][s] = 0

RECURSIVE ApplyCells(_, _)
ApplyCells(M, order) ==
    IF order = <<>> THEN M
    ELSE ApplyCells(ApplyAll(M, global_indices, log[Head(order)]), Tail(order))

FixedDofsOnly(cell) ==
    \A d \in SlaveDofsIn(cell) :
        /\ Len(masters_of(mpc, SlaveIndexOf(d))) = 1
        /\ \/ masters_of(mpc, SlaveIndexOf(d)) = <<d>>
           \/ coeffs_of(mpc, SlaveIndexOf(d)) = <<0>>

\* C10: a slave whose only master is itself, or whose coefficient is 0, is a
\* fixed dof: the cell is processed, nothing non-zero is moved on its behalf
\* and its row and column are zero in the inserted block.
C10_FixedDofMovesNothing ==
    \A cell \in Cells :
        (spec_id = "mat" /\ cell < cell_index /\ IsSlaveCell(cell) /\ FixedDofsOnly(cell))
            => /\ pc # "aborted"
               /\ \A i \in 1..Len(log[cell]) :
                     log[cell][i].kind # "local" => log[cell][i].val = 0
               /\ \A i \in 1..Len(log[cell]) :
                     (log[cell][i].kind = "local"
                      /\ (log[cell][i].row \in SlaveDofsIn(cell)
                          \/ log[cell][i].col \in SlaveDofsIn(cell)))
                         => log[cell][i].val = 0

\* the same for zero coefficients alone
C10_ZeroCoefficient ==
    \A cell \in Cells :
        (spec_id = "mat" /\ cell < cell_index /\ IsSlaveCell(cell)
         /\ \A d \in SlaveDofsIn(cell) : coeffs_of(mpc, SlaveIndexOf(d)) = <<0>>)
            => /\ pc # "aborted"
               /\ \A i \in 1..Len(log[cell]) :
                     log[cell][i].kind # "local" => log[cell][i].val = 0

----------------------------------------------------------------------------
\* assemble_vector

\* the local vector tabulated by the cell kernel
cell_kernel(cell) ==
    [k \in Loc |-> ScalarOne * (1 + k + num_dofs_per_element * cell)]

\* the local vector tabulated by the exterior-facet kernel: nothing for the
\* dof opposite the facet
facet_kernel(cell, local_facet) ==
    [k \in Loc |-> IF k = local_facet THEN 0 ELSE ScalarOne * (2 + k + cell)]

\* every cell has one exterior facet in the integral
FacetInfo ==
    [c \in 1..NumCells |-> <<c - 1, (c - 1) % num_dofs_per_element>>]

\* the cells of the integral: any of them in increasing order, or all of
\* them in decreasing order
ActiveCellLists ==
    {SetToSeq(S) : S \in SUBSET Cells}
    \cup {[i \in 1..NumCells |-> NumCells - i]}

\* dolfinx.cpp.fem.assemble_vector(vector, cpp_form)
RECURSIVE AddLocal(_, _, _, _)
AddLocal(vec, glob, b_local, k) ==
    IF k >= Len(glob) THEN vec
    ELSE AddLocal([vec EXCEPT ![At(glob, k)] = @ + b_local[k]], glob, b_local, k + 1)

RECURSIVE UnconstrainedCells(_, _, _)
UnconstrainedCells(vec, cells, dm) ==
    IF cells = <<>> THEN vec
    ELSE UnconstrainedCells(
            AddLocal(vec, local_pos_of(dm, Head(cells)), cell_kernel(Head(cells)), 0),
            Tail(cells), dm)

RECURSIVE UnconstrainedFacets(_, _, _)
UnconstrainedFacets(vec, facets, dm) ==
    IF facets = <<>> THEN vec
    ELSE UnconstrainedFacets(
            AddLocal(vec, local_pos_of(dm, Head(facets)[1]),
                     facet_kernel(Head(facets)[1], Head(facets)[2]), 0),
            Tail(facets), dm)

\* numpy.flatnonzero(numpy.isin(active_cells, slave_cells)), applied
slave_active_cells(active, slave_cells) ==
    SelectSeq(active, LAMBDA c : in_numpy_array(slave_cells, c))

\* the loop over the local dofs for one master
RECURSIVE MoveToMaster(_, _, _)
MoveToMaster(k, v, u) ==
    IF k >= Len(v.glob) THEN u
    ELSE IF At(v.gi, At(v.glob, k)) = v.slave
         THEN MoveToMaster(k + 1, v,
                 [b |-> [u.b EXCEPT ![v.master] = @ + CoeffMul(v.c0, v.b_copy[k])],
                  b_local |-> [u.b_local EXCEPT ![k] = 0]])
         ELSE MoveToMaster(k + 1, v, u)

\* the loop over the masters of one slave
RECURSIVE VecMasterLoop(_, _, _)
VecMasterLoop(m_0, v, u) ==
    IF m_0 >= Len(v.cell_masters) THEN u
    ELSE VecMasterLoop(m_0 + 1, v,
            MoveToMaster(0,
               [glob |-> v.glob, gi |-> v.gi, slave |-> v.slave, b_copy |-> v.b_copy,
                master |-> At(v.cell_masters, m_0), c0 |-> At(v.cell_coeffs, m_0)],
               u))

\* the loop over the slaves of the cell
RECURSIVE VecSlaveLoop(_, _, _, _)
VecSlaveLoop(s_0, v, m, u) ==
    IF s_0 >= Len(v.global_slaves) THEN u
    ELSE LET slave_index == At(v.global_slaves, s_0)
         IN VecSlaveLoop(s_0 + 1, v, m,
               VecMasterLoop(0,
                  [glob |-> v.glob, gi |-> v.gi, b_copy |-> v.b_copy,
                   slave |-> At(m.slaves, slave_index),
                   cell_masters |-> masters_of(m, slave_index),
                   cell_coeffs |-> coeffs_of(m, slave_index)],
                  u))

\* returns b and b_local as the function leaves them
modify_mpc_contributions(vec, cell, sci, b_local, b_copy, m, dm, gi) ==
    VecSlaveLoop(0,
       [glob |-> local_pos_of(dm, cell), gi |-> gi, b_copy |-> b_copy,
        global_slaves |-> global_slave_indices_of(m, sci)],
       m, [b |-> vec, b_local |-> b_local])

\* b[position] += b_local[j] - b_local_copy[j]
RECURSIVE AddDifference(_, _, _, _, _)
AddDifference(vec, glob, b_local, b_copy, j) ==
    IF j >= Len(glob) THEN vec
    ELSE AddDifference([vec EXCEPT ![At(glob, j)] = @ + (b_local[j] - b_copy[j])],
                       glob, b_local, b_copy, j + 1)

\* the body shared by the two loops, from the kernel's output on
MpcPass(vec, cell, sci, b_local, m, dm, gi) ==
    LET u == modify_mpc_contributions(vec, cell, sci, b_local, b_local, m, dm, gi)
    IN AddDifference(u.b, local_pos_of(dm, cell), u.b_local, b_local, 0)

InitVec ==
    /\ spec_id = "vec"
    /\ form = "linear"
    /\ dofmap = DofArray
    /\ global_indices = GlobalIndices
    /\ mpc \in MpcTables
    /\ bc_array = <<>>
    /\ pc = "unconstrained"
    /\ cell_index = 0
    /\ slave_cell_index = 0
    /\ A = <<>>
    /\ log = <<>>
    /\ diag_dofs = {}
    /\ active_cells \in ActiveCellLists
    /\ facet_info = FacetInfo
    /\ b = [d \in Dofs |-> 0]
    /\ it = 0
    /\ vlog = <<>>
    /\ layout = <<>>
    /\ possible_recv = <<>>
    /\ owners = <<>>
    /\ eager = TRUE
    /\ gpc = <<>>
    /\ share_masters = <<>>
    /\ sent = <<>>
    /\ chan = {}
    /\ received = <<>>
    /\ ghost_masters = <<>>
    /\ flat = <<>>

\* the assembly of the vector with all entries
AssembleUnconstrained ==
    /\ spec_id = "vec"
    /\ pc = "unconstrained"
    /\ b' = UnconstrainedFacets(UnconstrainedCells(b, active_cells, dofmap),
                                facet_info, dofmap)
    /\ pc' = "cells"
    /\ UNCHANGED <<spec_id, form, dofmap, global_indices, mpc, bc_array,
                   active_cells, facet_info, it, vlog>>
    /\ UNCHANGED <<cell_index, slave_cell_index, A, log, diag_dofs>>
    /\ UNCHANGED ghostvars

\* one pass of the loop of assemble_cells
VecCell ==
    /\ spec_id = "vec"
    /\ pc = "cells"
    /\ it < Len(slave_active_cells(active_cells, mpc.slave_cells))
    /\ LET cell == At(slave_active_cells(active_cells, mpc.slave_cells), it)
           nb == MpcPass(b, cell, it, cell_kernel(cell), mpc, dofmap, global_indices)
       IN /\ b' = nb
          /\ vlog' = Append(vlog, [pass |-> "cell", cell |-> cell, sci |-> it,
                                   skipped |-> FALSE, b_loc |-> cell_kernel(cell),
                                   before |-> b, after |-> nb])
    /\ it' = it + 1
    /\ UNCHANGED <<spec_id, form, dofmap, global_indices, mpc, bc_array,
                   active_cells, facet_info, pc>>
    /\ UNCHANGED <<cell_index, slave_cell_index, A, log, diag_dofs>>
    /\ UNCHANGED ghostvars

\* the end of assemble_cells
FinishVecCells ==
    /\ spec_id = "vec"
    /\ pc = "cells"
    /\ it = Len(slave_active_cells(active_cells, mpc.slave_cells))
    /\ pc' = "facets"
    /\ it' = 0
    /\ UNCHANGED <<spec_id, form, dofmap, global_indices, mpc, bc_array,
                   active_cells, facet_info, b, vlog>>
    /\ UNCHANGED <<cell_index, slave_cell_index, A, log, diag_dofs>>
    /\ UNCHANGED ghostvars

\* the first row of the cell-to-slave map for every cell
slave_cell_index_first(slave_cells, cell) == 0

\* slave_cell_index = numpy.flatnonzero(slave_cells == cell_index)[0]
slave_cell_index_of(slave_cells, cell) == PositionIn(slave_cells, cell)

\* one pass of the loop of assemble_exterior_facets
VecFacet ==
    /\ spec_id = "vec"
    /\ pc = "facets"
    /\ it < Len(facet_info)
    /\ LET cell == At(facet_info, it)[1]
           local_facet == At(facet_info, it)[2]
       IN IF ~in_numpy_array(mpc.slave_cells, cell)
          THEN /\ b' = b
               /\ vlog' = Append(vlog, [pass |-> "facet", cell |-> cell, sci |-> -1,
                                        skipped |-> TRUE, b_loc |-> <<>>,
                                        before |-> b, after |-> b])
          ELSE LET sci == slave_cell_index_of(mpc.slave_cells, cell)
                   nb == MpcPass(b, cell, sci, facet_kernel(cell, local_facet),
                                 mpc, dofmap, global_indices)
               IN /\ b' = nb
                  /\ vlog' = Append(vlog, [pass |-> "facet", cell |-> cell, sci |-> sci,
                                           skipped |-> FALSE,
                                           b_loc |-> facet_kernel(cell, local_facet),
                                           before |-> b, after |-> nb])
    /\ it' = it + 1
    /\ UNCHANGED <<spec_id, form, dofmap, global_indices, mpc, bc_array,
                   active_cells, facet_info, pc>>
    /\ UNCHANGED <<cell_index, slave_cell_index, A, log, diag_dofs>>
    /\ UNCHANGED ghostvars

\* the end of assemble_exterior_facets and the return
FinishVecFacets ==
    /\ spec_id = "vec"
    /\ pc = "facets"
    /\ it = Len(facet_info)
    /\ pc' = "done"
    /\ UNCHANGED <<spec_id, form, dofmap, global_indices, mpc, bc_array,
                   active_cells, facet_info, b, it, vlog>>
    /\ UNCHANGED <<cell_index, slave_cell_index, A, log, diag_dofs>>
    /\ UNCHANGED ghostvars

NextVec == AssembleUnconstrained \/ VecCell \/ FinishVecCells \/ VecFacet
           \/ FinishVecFacets

SpecVec == InitVec /\ [][NextVec]_vars

-----------------------------------------------------------------------------
\* The push of the gathered master lists to the ghosting ranks
\* (debug/bb_parallel.py, the tag-5 exchange)

Procs == 0..(NumProcs - 1)

SharedSlaves == 1..NumSharedSlaves

\* loc_to_glob[dof] of a slave: every rank knows the slave by this index
GlobalSlave(s) == NumDofs + s

\* m_loc, c_loc and o_loc between offsets[i] and offsets[i+1]: the masters the
\* owner gathered for its slave, one for an odd slave and two for an even one
GatheredList(s, o) ==
    IF s % 2 = 1
    THEN [masters |-> <<GlobalSlave(s) + NumSharedSlaves>>,
          coeffs  |-> <<Den>>,
          owners  |-> <<o>>]
    ELSE [masters |-> <<GlobalSlave(s) + NumSharedSlaves,
                        GlobalSlave(s) + 2 * NumSharedSlaves>>,
          coeffs  |-> <<1, Den - 1>>,
          owners  |-> <<o, (o + 1) % NumProcs>>]

\* the ranks whose partitions touch the partition of rank o
Neighbours(o) == { (o + 1) % NumProcs, (o + NumProcs - 1) % NumProcs }

SlaveLayouts ==
    { r \in [owner : Procs, ghosts : SUBSET Procs] :
        r.ghosts \subseteq Neighbours(r.owner) }

\* the partition of the slaves: who owns each, which ranks hold it as a ghost
\* and what its owner gathered.  Slaves are numbered in the order of their
\* owners, as the index map numbers the dofs of rank 0 first.
Layouts ==
    { [ s \in SharedSlaves |->
          [owner |-> f[s].owner, ghosts |-> f[s].ghosts,
           data |-> GatheredList(s, f[s].owner)] ] :
        f \in { g \in [SharedSlaves -> SlaveLayouts] :
                  \A s, t \in SharedSlaves : s < t => g[s].owner <= g[t].owner } }

\* loc_slaves_flat of a rank: the slaves below local_size, ascending
loc_slaves_flat(l, p) ==
    SetToSeq({ s \in SharedSlaves : l[s].owner = p })

\* ghost_slaves of a rank: the slaves at or above local_size, ascending
ghost_slaves(l, p) ==
    SetToSeq({ s \in SharedSlaves : p \in l[s].ghosts })

\* shared_indices of a rank: block -> the ranks that share it, for the blocks
\* that are shared at all
shared_indices(l, p) ==
    [ s \in { t \in SharedSlaves : l[t].owner = p /\ l[t].ghosts # {} }
        |-> SetToSeq(l[s].ghosts) ]

\* the ghost_owner_rank() of the block of a ghost slave
ghost_ranks(l, s) == l[s].owner

DictSet(d, k, v) ==
    [ x \in (DOMAIN d) \cup {k} |-> IF x = k THEN v ELSE d[x] ]

\* dict.update
DictUpdate(d, e) ==
    [ x \in (DOMAIN d) \cup (DOMAIN e) |-> IF x \in DOMAIN e THEN e[x] ELSE d[x] ]

\* an overwrite of the destination's dictionary (a variant of AddShare)
AddShareOverwrite(sm, proc, slave, data) ==
    IF \E k \in 1..Len(sm) : sm[k].dest = proc
    THEN [ k \in 1..Len(sm) |->
             IF sm[k].dest = proc
             THEN [dest |-> proc, data |-> DictSet(<<>>, slave, data)]
             ELSE sm[k] ]
    ELSE Append(sm, [dest |-> proc, data |-> DictSet(<<>>, slave, data)])

\* the body of the loop over shared_indices[block]: share_masters is kept in
\* the order its keys were inserted
AddShare(sm, proc, slave, data) ==
    IF \E k \in 1..Len(sm) : sm[k].dest = proc
    THEN [ k \in 1..Len(sm) |->
             IF sm[k].dest = proc
             THEN [dest |-> proc, data |-> DictSet(sm[k].data, slave, data)]
             ELSE sm[k] ]
    ELSE Append(sm, [dest |-> proc, data |-> DictSet(<<>>, slave, data)])

RECURSIVE ShareProcs(_, _, _, _, _)
ShareProcs(j, procs, slave, data, sm) ==
    IF j > Len(procs) THEN sm
    ELSE ShareProcs(j + 1, procs, slave, data,
                    AddShare(sm, procs[j], GlobalSlave(slave), data))

RECURSIVE ShareSlaves(_, _, _, _)
ShareSlaves(i, l, p, sm) ==
    IF i > Len(loc_slaves_flat(l, p)) THEN sm
    ELSE LET dof == loc_slaves_flat(l, p)[i]
         IN ShareSlaves(i + 1, l, p,
                IF dof \in DOMAIN shared_indices(l, p)
                THEN ShareProcs(1, shared_indices(l, p)[dof], dof, l[dof].data, sm)
                ELSE sm)

\* the owner of the first ghost slave alone
ghost_recv_first(l, p) ==
    IF ghost_slaves(l, p) = <<>> THEN {}
    ELSE {ghost_ranks(l, ghost_slaves(l, p)[1])}

\* ghost_recv of a rank: the owners of its ghost slaves
ghost_recv(l, p) ==
    { ghost_ranks(l, s) : s \in Range(ghost_slaves(l, p)) }

RECURSIVE flatten_loop(_, _, _, _)
flatten_loop(i, slaves, masters, acc) ==
    IF i > Len(slaves) THEN acc
    ELSE IF slaves[i] \notin DOMAIN masters THEN [acc EXCEPT !.raised = "KeyError"]
    ELSE flatten_loop(i + 1, slaves, masters,
            [raised |-> acc.raised,
             g_m |-> acc.g_m \o masters[slaves[i]].masters,
             g_c |-> acc.g_c \o masters[slaves[i]].coeffs,
             g_o |-> acc.g_o \o masters[slaves[i]].owners,
             offsets |-> Append(acc.offsets,
                                Len(acc.g_m) + Len(masters[slaves[i]].masters))])

flatten_ghosts(slaves, masters) ==
    flatten_loop(1, slaves, masters,
                 [raised |-> "", g_m |-> <<>>, g_c |-> <<>>, g_o |-> <<>>,
                  offsets |-> <<0>>])

InitGhost ==
    /\ spec_id = "ghost"
    /\ form = "none"
    /\ dofmap = <<>>
    /\ global_indices = <<>>
    /\ mpc = <<>>
    /\ bc_array = <<>>
    /\ pc = "ghost"
    /\ cell_index = 0
    /\ slave_cell_index = 0
    /\ A = <<>>
    /\ log = <<>>
    /\ diag_dofs = {}
    /\ active_cells = <<>>
    /\ facet_info = <<>>
    /\ b = <<>>
    /\ it = 0
    /\ vlog = <<>>
    /\ layout \in Layouts
    /\ eager \in BOOLEAN
    /\ possible_recv = [p \in Procs |-> {}]
    /\ owners = [p \in Procs |-> {}]
    /\ gpc = [p \in Procs |-> "build"]
    /\ share_masters = [p \in Procs |-> <<>>]
    /\ sent = [p \in Procs |-> 0]
    /\ chan = {}
    /\ received = [p \in Procs |-> {}]
    /\ ghost_masters = [p \in Procs |-> <<>>]
    /\ flat = [p \in Procs |-> <<>>]

assemblyvars == <<form, dofmap, global_indices, mpc, bc_array, pc, cell_index,
                  slave_cell_index, A, log, diag_dofs, active_cells,
                  facet_info, b, it, vlog>>

\* a rank is in its loop of sends
Sending(p) ==
    gpc[p] = "exchange" /\ sent[p] < Len(share_masters[p])

\* a rank is in its loop of receives; the set of small ranks is iterated in
\* ascending order
Receiving(p) ==
    /\ gpc[p] = "exchange"
    /\ sent[p] = Len(share_masters[p])
    /\ received[p] # ghost_recv(layout, p)

NextOwner(p) ==
    CHOOSE o \in ghost_recv(layout, p) \ received[p] :
        \A o2 \in ghost_recv(layout, p) \ received[p] : o <= o2

\* the script is at or before its tag-5 push
PushRunning == spec_id \in {"ghost", "exchange"}

\* the construction of share_masters
BuildShare(p) ==
    /\ PushRunning
    /\ gpc[p] = "build"
    /\ share_masters' = [share_masters EXCEPT ![p] = ShareSlaves(1, layout, p, <<>>)]
    /\ gpc' = [gpc EXCEPT ![p] = "exchange"]
    /\ UNCHANGED <<spec_id, layout, eager, possible_recv, owners, sent, chan, received, ghost_masters, flat>>
    /\ UNCHANGED assemblyvars

\* comm.send(share_masters[proc], dest=proc, tag=5) that MPI buffers: it
\* returns before the receive is posted
SendBuffered(p) ==
    /\ PushRunning
    /\ eager
    /\ Sending(p)
    /\ LET m == share_masters[p][sent[p] + 1]
       IN chan' = chan \cup {[src |-> p, dst |-> m.dest, tag |-> 5,
                              data |-> m.data]}
    /\ sent' = [sent EXCEPT ![p] = @ + 1]
    /\ UNCHANGED <<spec_id, layout, eager, possible_recv, owners, gpc, share_masters, received,
                   ghost_masters, flat>>
    /\ UNCHANGED assemblyvars

\* data = comm.recv(source=owner, tag=5); ghost_masters.update(data), of a
\* buffered message
Recv(q) ==
    /\ PushRunning
    /\ Receiving(q)
    /\ \E m \in chan :
          /\ m.src = NextOwner(q)
          /\ m.dst = q
          /\ m.tag = 5
          /\ chan' = chan \ {m}
          /\ ghost_masters' = [ghost_masters EXCEPT ![q] = DictUpdate(@, m.data)]
          /\ received' = [received EXCEPT ![q] = @ \cup {m.src}]
    /\ UNCHANGED <<spec_id, layout, eager, possible_recv, owners, gpc, share_masters, sent, flat>>
    /\ UNCHANGED assemblyvars

\* a send that MPI does not buffer returns when the matching receive is
\* posted: the send of p and the receive of q complete together
SendRecvSynchronous(p, q) ==
    /\ PushRunning
    /\ ~eager
    /\ Sending(p)
    /\ share_masters[p][sent[p] + 1].dest = q
    /\ Receiving(q)
    /\ NextOwner(q) = p
    /\ sent' = [sent EXCEPT ![p] = @ + 1]
    /\ ghost_masters' = [ghost_masters EXCEPT
                            ![q] = DictUpdate(@, share_masters[p][sent[p] + 1].data)]
    /\ received' = [received EXCEPT ![q] = @ \cup {p}]
    /\ UNCHANGED <<spec_id, layout, eager, possible_recv, owners, gpc, share_masters, chan, flat>>
    /\ UNCHANGED assemblyvars

\* the call of flatten_ghosts after the loop of receives
Flatten(p) ==
    /\ PushRunning
    /\ gpc[p] = "exchange"
    /\ sent[p] = Len(share_masters[p])
    /\ received[p] = ghost_recv(layout, p)
    /\ flat' = [flat EXCEPT ![p] =
                  flatten_ghosts([i \in 1..Len(ghost_slaves(layout, p)) |->
                                    GlobalSlave(ghost_slaves(layout, p)[i])],
                                 ghost_masters[p])]
    /\ gpc' = [gpc EXCEPT ![p] = "done"]
    /\ UNCHANGED <<spec_id, layout, eager, possible_recv, owners, share_masters, sent, chan, received,
                   ghost_masters>>
    /\ UNCHANGED assemblyvars

NextGhost ==
    \E p \in Procs :
        \/ BuildShare(p)
        \/ SendBuffered(p)
        \/ Recv(p)
        \/ \E q \in Procs : SendRecvSynchronous(p, q)
        \/ Flatten(p)

SpecGhost == InitGhost /\ [][NextGhost]_vars

----------------------------------------------------------------------------
\* The three exchanges of bb_parallel.py: collisions (tag 0), masters
\* (tag 1) and the push to the ghosts (tag 5)

\* the ranks a rank exchanges collision data with
OtherProcs(p) == Procs \ {p}

\* the ranks whose bounding boxes the slaves of a rank may collide with:
\* the next rank or none
CollisionSets(p) == SUBSET {(p + 1) % NumProcs}

\* the partitions in which a slave is a ghost on the rank after its owner's
\* at most
ExchangeLayouts ==
    {l \in Layouts :
        \A s \in SharedSlaves : l[s].ghosts \subseteq {(l[s].owner + 1) % NumProcs}}

\* the next source of a loop of receives over the ranks in S
NextSource(S, p) ==
    CHOOSE o \in S \ received[p] : \A o2 \in S \ received[p] : o <= o2

\* the script goes on after recv_masters as if nothing were left to receive
MastersUndrained(p) == TRUE

\* recv_masters(loc_slaves_flat, glob_slaves, possible_recv, tag=1) has
\* received from every rank of possible_recv
MastersDrained(p) == received[p] = possible_recv[p]

InitExchange ==
    /\ spec_id = "exchange"
    /\ form = "none"
    /\ dofmap = <<>>
    /\ global_indices = <<>>
    /\ mpc = <<>>
    /\ bc_array = <<>>
    /\ pc = "exchange"
    /\ cell_index = 0
    /\ slave_cell_index = 0
    /\ A = <<>>
    /\ log = <<>>
    /\ diag_dofs = {}
    /\ active_cells = <<>>
    /\ facet_info = <<>>
    /\ b = <<>>
    /\ it = 0
    /\ vlog = <<>>
    /\ layout \in ExchangeLayouts
    /\ eager = TRUE
    /\ possible_recv = [p \in Procs |-> {}]
    /\ owners = [p \in Procs |-> {}]
    /\ gpc = [p \in Procs |-> "collide"]
    /\ share_masters = [p \in Procs |-> <<>>]
    /\ sent = [p \in Procs |-> 0]
    /\ chan = {}
    /\ received = [p \in Procs |-> {}]
    /\ ghost_masters = [p \in Procs |-> <<>>]
    /\ flat = [p \in Procs |-> <<>>]

\* possible_recv = send_bb_collisions(V, loc_slaves, loc_coords, n_vec, tag=0):
\* every other rank is sent the slaves that collide with its bounding box,
\* none included
SendCollisions(p) ==
    /\ spec_id = "exchange"
    /\ gpc[p] = "collide"
    /\ \E S \in CollisionSets(p) :
          /\ possible_recv' = [possible_recv EXCEPT ![p] = S]
          /\ chan' = chan \cup {[src |-> p, dst |-> q, tag |-> 0,
                                 slaves |-> q \in S] : q \in OtherProcs(p)}
    /\ gpc' = [gpc EXCEPT ![p] = "recv_collisions"]
    /\ UNCHANGED <<spec_id, layout, eager, owners, share_masters, sent, received,
                   ghost_masters, flat>>
    /\ UNCHANGED assemblyvars

\* one receive of recv_bb_collisions(tag=0)
RecvCollisions(p) ==
    /\ spec_id = "exchange"
    /\ gpc[p] = "recv_collisions"
    /\ received[p] # OtherProcs(p)
    /\ \E m \in chan :
          /\ m.src = NextSource(OtherProcs(p), p)
          /\ m.dst = p
          /\ m.tag = 0
          /\ chan' = chan \ {m}
          /\ owners' = [owners EXCEPT ![p] = IF m.slaves THEN @ \cup {m.src} ELSE @]
          /\ received' = [received EXCEPT ![p] = @ \cup {m.src}]
    /\ UNCHANGED <<spec_id, layout, eager, possible_recv, gpc, share_masters, sent,
                   ghost_masters, flat>>
    /\ UNCHANGED assemblyvars

\* if len(slaves_glob) > 0: compute_masters_from_global(...);
\* send_masters(masters_for_slaves, owners, tag=1)
SendMasters(p) ==
    /\ spec_id = "exchange"
    /\ gpc[p] = "recv_collisions"
    /\ received[p] = OtherProcs(p)
    /\ chan' = chan \cup {[src |-> p, dst |-> o, tag |-> 1, masters |-> p] :
                             o \in owners[p]}
    /\ gpc' = [gpc EXCEPT ![p] = "recv_masters"]
    /\ received' = [received EXCEPT ![p] = {}]
    /\ UNCHANGED <<spec_id, layout, eager, possible_recv, owners, share_masters,
                   sent, ghost_masters, flat>>
    /\ UNCHANGED assemblyvars

\* one receive of recv_masters(..., possible_recv, tag=1)
RecvMasters(p) ==
    /\ spec_id = "exchange"
    /\ gpc[p] = "recv_masters"
    /\ received[p] # possible_recv[p]
    /\ \E m \in chan :
          /\ m.src = NextSource(possible_recv[p], p)
          /\ m.dst = p
          /\ m.tag = 1
          /\ chan' = chan \ {m}
          /\ received' = [received EXCEPT ![p] = @ \cup {m.src}]
    /\ UNCHANGED <<spec_id, layout, eager, possible_recv, owners, gpc,
                   share_masters, sent, ghost_masters, flat>>
    /\ UNCHANGED assemblyvars

\* select_masters and gather_masters_for_local_slaves, after recv_masters
GatherMasters(p) ==
    /\ spec_id = "exchange"
    /\ gpc[p] = "recv_masters"
    /\ MastersDrained(p)
    /\ gpc' = [gpc EXCEPT ![p] = "build"]
    /\ received' = [received EXCEPT ![p] = {}]
    /\ UNCHANGED <<spec_id, layout, eager, possible_recv, owners, share_masters,
                   sent, chan, ghost_masters, flat>>
    /\ UNCHANGED assemblyvars

NextExchange ==
    \E p \in Procs :
        \/ SendCollisions(p)
        \/ RecvCollisions(p)
        \/ SendMasters(p)
        \/ RecvMasters(p)
        \/ GatherMasters(p)
        \/ BuildShare(p)
        \/ SendBuffered(p)
        \/ Recv(p)
        \/ Flatten(p)

SpecExchange == InitExchange /\ [][NextExchange]_vars

----------------------------------------------------------------------------
\* Matrix and vector assembly taken together

InitAssemble == InitMat \/ InitVec

NextAssemble == NextMat \/ NextVec

SpecAssemble == InitAssemble /\ [][NextAssemble]_vars

\* the block the kernel gives for the cell with the rows and columns of the
\* Dirichlet dofs at zero, entry (i, j)
ZeroedKernelEntry(cell, i, j) ==
    IF in_numpy_array(bc_array, At(local_pos_of(dofmap, cell), i))
       \/ in_numpy_array(bc_array, At(local_pos_of(dofmap, cell), j))
    THEN 0
    ELSE kernel(form, cell)[i][j]

\* C3: for a cell that is not in slave_cells the matrix assembly inserts the
\* kernel's local matrix, Dirichlet rows and columns zeroed, at the cell's
\* own dofs and nothing at a master; the cell pass of the vector assembly
\* does not visit the cell and the facet pass skips it, the vector unchanged.
C3_NonSlaveCellUntouched ==
    /\ \A cell \in Cells :
          (Assembled(cell) /\ ~IsSlaveCell(cell))
             => /\ Len(log[cell]) = num_dofs_per_element * num_dofs_per_element
                /\ \A i \in Loc, j \in Loc :
                      log[cell][i * num_dofs_per_element + j + 1] =
                          [row |-> At(local_pos_of(dofmap, cell), i),
                           col |-> At(local_pos_of(dofmap, cell), j),
                           val |-> ZeroedKernelEntry(cell, i, j),
                           mode |-> "add", kind |-> "local"]
    /\ spec_id = "vec" =>
          \A k \in 1..Len(vlog) :
              ~in_numpy_array(mpc.slave_cells, vlog[k].cell)
                 => /\ vlog[k].pass = "facet"
                    /\ vlog[k].skipped
                    /\ vlog[k].after = vlog[k].before

\* a cell without slaves but with a Dirichlet dof has been assembled next to
\* a slave cell
C3_Witness ==
    /\ spec_id = "mat"
    /\ \E cell \in Cells :
          /\ Assembled(cell) /\ ~IsSlaveCell(cell)
          /\ ~NoDirichletIn(cell)
          /\ \E other \in Cells : Assembled(other) /\ IsSlaveCell(other)

\* the facet of a cell without slaves has been passed over after the cell
\* pass went through a slave cell
C3_VectorWitness ==
    /\ spec_id = "vec"
    /\ \E k \in 1..Len(vlog) :
          /\ vlog[k].pass = "facet"
          /\ ~in_numpy_array(mpc.slave_cells, vlog[k].cell)
          /\ in_numpy_array(active_cells, vlog[k].cell)
    /\ \E k \in 1..Len(vlog) : vlog[k].pass = "cell" /\ vlog[k].after # vlog[k].before

----------------------------------------------------------------------------
\* Properties of the ghost push

\* the rank has left its loop of receives
ExchangeDone(p) ==
    \/ gpc[p] = "done"
    \/ /\ gpc[p] = "exchange"
       /\ sent[p] = Len(share_masters[p])
       /\ received[p] = ghost_recv(layout, p)

\* C6: once a rank has gone through its tag-5 receives it holds, under the
\* global index of each of its ghost slaves, the masters, coefficients and
\* owners the owner of the slave gathered, so that two ranks ghosting the
\* same slave hold the same list, and flatten_ghosts finds every ghost slave.
C6_GhostsHoldOwnersList ==
    spec_id = "ghost" =>
        \A p \in Procs :
            /\ ExchangeDone(p) =>
                  \A s \in SharedSlaves :
                      p \in layout[s].ghosts
                         => /\ GlobalSlave(s) \in DOMAIN ghost_masters[p]
                            /\ ghost_masters[p][GlobalSlave(s)] = layout[s].data
            /\ gpc[p] = "done" => flat[p].raised = ""

\* a slave ghosted on two ranks, both through with flatten_ghosts, one of
\* them having received a second slave of the same owner in the same message
C6_Witness ==
    /\ spec_id = "ghost"
    /\ \E s \in SharedSlaves, t \in SharedSlaves, p1 \in Procs, p2 \in Procs :
          /\ p1 # p2 /\ s # t
          /\ layout[s].ghosts = {p1, p2}
          /\ layout[t].owner = layout[s].owner
          /\ p1 \in layout[t].ghosts
          /\ gpc[p1] = "done" /\ gpc[p2] = "done"
          /\ Len(flat[p1].g_m) > Len(flat[p2].g_m)

----------------------------------------------------------------------------
\* assemble_matrix with a cell-to-slave map that lists, for one cell, slaves
\* the cell does not hold

\* the table of S and T in which the cells of bad are slave cells whose row
\* of the cell-to-slave map lists every slave of S
PackMpcListing(S, T, bad) ==
    LET sl == SetToSeq(S)
        cellorder == SetToSeq({c \in Cells : S \cap CellDofs(c) # {}} \cup bad)
        rows == [i \in 1..Len(cellorder) |->
                    LET in_cell == IF cellorder[i] \in bad THEN sl
                                   ELSE SetToSeq(S \cap CellDofs(cellorder[i]))
                    IN [k \in 1..Len(in_cell) |-> At(GlobalIndices, in_cell[k])]]
    IN [slaves |-> [i \in 1..Len(sl) |-> At(GlobalIndices, sl[i])],
        masters_local |-> Concat([i \in 1..Len(sl) |-> T[sl[i]].masters]),
        coefficients |-> Concat([i \in 1..Len(sl) |-> T[sl[i]].coeffs]),
        offsets |-> OffsetsOf([i \in 1..Len(sl) |-> Len(T[sl[i]].masters)], 0),
        slave_cells |-> cellorder,
        cell_to_slave |-> Concat(rows),
        c_to_s_off |-> OffsetsOf([i \in 1..Len(rows) |-> Len(rows[i])], 0)]

\* at most one cell has such a row
ListingTables ==
    UNION {UNION {{PackMpcListing(S, T, bad) : T \in Tables(S)} :
                     bad \in {{}} \cup {{c} : c \in Cells}} :
              S \in SlaveSets \ {{}}}

InitMatListing ==
    /\ spec_id = "mat"
    /\ form = "nonsymmetric"
    /\ dofmap = DofArray
    /\ global_indices = GlobalIndices
    /\ mpc \in ListingTables
    /\ bc_array = <<>>
    /\ pc = "cells"
    /\ cell_index = 0
    /\ slave_cell_index = 0
    /\ A = ZeroMatrix(global_indices)
    /\ log = [c \in Cells |-> <<>>]
    /\ diag_dofs = {}
    /\ active_cells = <<>>
    /\ facet_info = <<>>
    /\ b = <<>>
    /\ it = 0
    /\ vlog = <<>>
    /\ layout = <<>>
    /\ possible_recv = <<>>
    /\ owners = <<>>
    /\ eager = TRUE
    /\ gpc = <<>>
    /\ share_masters = <<>>
    /\ sent = <<>>
    /\ chan = {}
    /\ received = <<>>
    /\ ghost_masters = <<>>
    /\ flat = <<>>

SpecMatListing == InitMatListing /\ [][NextMat]_vars

\* the slaves the cell-to-slave map lists for the cell, as indices into slaves
ListedFor(cell) ==
    global_slave_indices_of(mpc, PositionIn(mpc.slave_cells, cell))

\* the listed slaves without a local dof in the cell
MissingIn(cell) ==
    {i \in Range(ListedFor(cell)) :
        \A k \in Loc : At(global_indices, At(local_pos_of(dofmap, cell), k))
                          # At(mpc.slaves, i)}

\* the cell the loop went through last
LastCell == cell_index - 1

\* C11: when the cell-to-slave map lists for a cell a slave without a local
\* dof of that global index in the cell, slave_global_to_local_pos fails its
\* assertion and the assembly stops in that cell; what was inserted for the
\* cell before is at most cross terms between masters of slaves the cell
\* does hold, and nothing at all when the cell holds at most one of them.
C11_MissingSlaveAborts ==
    (spec_id = "mat" /\ cell_index > 0 /\ IsSlaveCell(LastCell)
     /\ pc \in {"cells", "aborted"})
        => /\ (pc = "aborted") <=> (MissingIn(LastCell) # {})
           /\ pc = "aborted" =>
                 /\ \A i \in 1..Len(log[LastCell]) :
                       /\ log[LastCell][i].kind = "cross"
                       /\ \E f \in Range(ListedFor(LastCell)) \ MissingIn(LastCell) :
                             in_numpy_array(masters_of(mpc, f), log[LastCell][i].row)
                       /\ \E f \in Range(ListedFor(LastCell)) \ MissingIn(LastCell) :
                             in_numpy_array(masters_of(mpc, f), log[LastCell][i].col)
                 /\ Cardinality(Range(ListedFor(LastCell)) \ MissingIn(LastCell)) <= 1
                       => log[LastCell] = <<>>

\* the assembly stopped in the second cell, on a listed slave it does not
\* hold, after the first cell moved a slave to its masters
C11_Witness ==
    /\ spec_id = "mat" /\ pc = "aborted" /\ cell_index = 2
    /\ MissingIn(1) # {}
    /\ Len(ListedFor(1)) > 1
    /\ \E i \in 1..Len(log[0]) : log[0][i].kind = "row" /\ log[0][i].val # 0

----------------------------------------------------------------------------
\* assemble_vector with a cell-to-slave map that lists, for one cell, slaves
\* the cell does not hold; the integral is over all cells

InitVecListing ==
    /\ spec_id = "vec"
    /\ form = "linear"
    /\ dofmap = DofArray
    /\ global_indices = GlobalIndices
    /\ mpc \in ListingTables
    /\ bc_array = <<>>
    /\ pc = "unconstrained"
    /\ cell_index = 0
    /\ slave_cell_index = 0
    /\ A = <<>>
    /\ log = <<>>
    /\ diag_dofs = {}
    /\ active_cells = SetToSeq(Cells)
    /\ facet_info = FacetInfo
    /\ b = [d \in Dofs |-> 0]
    /\ it = 0
    /\ vlog = <<>>
    /\ layout = <<>>
    /\ possible_recv = <<>>
    /\ owners = <<>>
    /\ eager = TRUE
    /\ gpc = <<>>
    /\ share_masters = <<>>
    /\ sent = <<>>
    /\ chan = {}
    /\ received = <<>>
    /\ ghost_masters = <<>>
    /\ flat = <<>>

SpecVecListing == InitVecListing /\ [][NextVec]_vars

\* the slaves of row sci of the cell-to-slave map without a local dof in the
\* cell, as indices into slaves
MissingInRow(cell, sci) ==
    {i \in Range(global_slave_indices_of(mpc, sci)) :
        \A k \in Loc : At(global_indices, At(local_pos_of(dofmap, cell), k))
                          # At(mpc.slaves, i)}

\* C12: in the vector assembly a slave listed for a cell without a local dof
\* in the cell is fatal: no pass of the MPC loops over such a cell, read at
\* its own row of the cell-to-slave map, runs to its end.
C12_MissingSlaveAbortsVector ==
    spec_id = "vec" =>
        \A k \in 1..Len(vlog) :
            (~vlog[k].skipped
             /\ vlog[k].sci = PositionIn(mpc.slave_cells, vlog[k].cell))
                => MissingInRow(vlog[k].cell, vlog[k].sci) = {}

\* what the code does instead: the pass runs to its end, and where the cell
\* holds none of the slaves of the row the vector is left as it was
C12_MissingSlaveIgnored ==
    spec_id = "vec" =>
        \A k \in 1..Len(vlog) :
            (~vlog[k].skipped
             /\ Range(global_slave_indices_of(mpc, vlog[k].sci))
                   = MissingInRow(vlog[k].cell, vlog[k].sci))
                => vlog[k].after = vlog[k].before

----------------------------------------------------------------------------
\* Properties of the couplings between masters

\* the sum of the values of one kind the cell inserted at (row, col)
InsertedAt(cell, kinds, row, col) ==
    SumSeq([i \in 1..Len(log[cell]) |->
               IF log[cell][i].kind \in kinds /\ log[cell][i].row = row
                  /\ log[cell][i].col = col
               THEN log[cell][i].val ELSE 0])

\* the local position of the slave of index i in the cell
LocalOf(cell, i) ==
    slave_global_to_local_pos(At(mpc.slaves, i), global_indices,
                              local_pos_of(dofmap, cell))

\* the sum of c*c'*A_copy[l, l'] over the ordered pairs of distinct slaves of
\* the cell and of their masters that meet at (row, col)
CrossDue(cell, row, col) ==
    LET gsi == ListedFor(cell)
    IN SumSeq(Concat(Concat(Concat(
         [a \in 1..Len(gsi) |-> [c \in 1..Len(gsi) |->
            [i \in 1..Len(masters_of(mpc, gsi[a])) |->
               [j \in 1..Len(masters_of(mpc, gsi[c])) |->
                  IF a # c /\ masters_of(mpc, gsi[a])[i] = row
                     /\ masters_of(mpc, gsi[c])[j] = col
                  THEN CoeffMul(coeffs_of(mpc, gsi[a])[i],
                          CoeffMul(coeffs_of(mpc, gsi[c])[j],
                             ZeroedKernelEntry(cell, LocalOf(cell, gsi[a]),
                                               LocalOf(cell, gsi[c]))))
                  ELSE 0]]]]))))

\* C13: for every cell and every pair of distinct slaves s at l and s' at l'
\* of the cell, each master m of s (coefficient c) and m' of s' (coefficient
\* c') receives c*c'*A_copy[l, l'] at (m, m') on account of the pair, once,
\* also with several masters per slave and a non-symmetric local matrix.
C13_CrossSlaveCoupling ==
    \A cell \in Cells :
        (Assembled(cell) /\ IsSlaveCell(cell) /\ NoFixedDofIn(cell))
            => \A row \in Dofs, col \in Dofs :
                  InsertedAt(cell, {"cross"}, row, col) = CrossDue(cell, row, col)

\* the same where the local matrix is symmetric and, in a cell with several
\* slaves, every slave has one master
C13_CrossSymmetricSingle ==
    \A cell \in Cells :
        (Assembled(cell) /\ IsSlaveCell(cell) /\ NoFixedDofIn(cell)
         /\ form = "symmetric"
         /\ \A d \in SlaveDofsIn(cell) : Len(masters_of(mpc, SlaveIndexOf(d))) = 1)
            => \A row \in Dofs, col \in Dofs :
                  InsertedAt(cell, {"cross"}, row, col) = CrossDue(cell, row, col)

\* the sum of c_i*c_j*A_copy[l, l] over the slaves of the cell and the pairs
\* of their masters, equal or not, that meet at (row, col)
SameDue(cell, row, col) ==
    LET gsi == ListedFor(cell)
    IN SumSeq(Concat(Concat(
         [a \in 1..Len(gsi) |->
            [i \in 1..Len(masters_of(mpc, gsi[a])) |->
               [j \in 1..Len(masters_of(mpc, gsi[a])) |->
                  IF masters_of(mpc, gsi[a])[i] = row
                     /\ masters_of(mpc, gsi[a])[j] = col
                  THEN CoeffMul(coeffs_of(mpc, gsi[a])[i],
                          CoeffMul(coeffs_of(mpc, gsi[a])[j],
                             ZeroedKernelEntry(cell, LocalOf(cell, gsi[a]),
                                               LocalOf(cell, gsi[a]))))
                  ELSE 0]]])))

\* C14: a slave at l with masters m_0..m_k and coefficients c_0..c_k adds
\* c_i*c_j*A_copy[l, l] at (m_i, m_j) for every i and j, i = j included, each
\* once.
C14_SameSlaveCoupling ==
    \A cell \in Cells :
        (Assembled(cell) /\ IsSlaveCell(cell))
            => \A row \in Dofs, col \in Dofs :
                  InsertedAt(cell, {"master", "same"}, row, col)
                      = SameDue(cell, row, col)

\* a slave with two masters of coefficient 1/Den each and 4 on the diagonal
\* of the local matrix: the two master diagonals and the two couplings get
\* 4/(Den*Den) each
C14_Witness ==
    /\ Assembled(0)
    /\ \E d \in SlaveDofsIn(0) :
          /\ SlaveDofsIn(0) = {d}
          /\ coeffs_of(mpc, SlaveIndexOf(d)) = <<1, 1>>
          /\ ZeroedKernelEntry(0, LocalOf(0, SlaveIndexOf(d)),
                               LocalOf(0, SlaveIndexOf(d))) = 4 * ScalarOne
          /\ \A i \in 1..2, j \in 1..2 :
                InsertedAt(0, {"master", "same"},
                           masters_of(mpc, SlaveIndexOf(d))[i],
                           masters_of(mpc, SlaveIndexOf(d))[j]) = 4

----------------------------------------------------------------------------
\* Properties of the reduced local block

\* what the cell inserted through its own dof positions, in order
LocalInsertions(cell) ==
    SelectSeq(log[cell], LAMBDA e : e.kind = "local")

\* the local positions of the slaves listed for the cell
SlavePositions(cell) ==
    {LocalOf(cell, i) : i \in Range(ListedFor(cell))}

----------------------------------------------------------------------------
\* Properties of the movement of vector contributions

\* the position of local dof d in the cell
PosInCell(cell, d) ==
    CHOOSE k \in Loc : At(local_pos_of(dofmap, cell), k) = d

\* what is due at dof d for the slave at local dof s of the cell:
\* c_i * b_loc[k] for every master m_i = d, and -b_loc[k] at the slave
MovedFor(cell, b_loc, s, d) ==
    LET i == SlaveIndexOf(s)
        k == PosInCell(cell, s)
        ms == masters_of(mpc, i)
        cs == coeffs_of(mpc, i)
    IN SumSeq([h \in 1..Len(ms) |->
                  IF ms[h] = d THEN CoeffMul(cs[h], b_loc[k]) ELSE 0])
       - (IF d = s THEN b_loc[k] ELSE 0)

VectorDue(cell, b_loc, d) ==
    LET ss == SetToSeq(SlaveDofsIn(cell))
    IN SumSeq([h \in 1..Len(ss) |-> MovedFor(cell, b_loc, ss[h], d)])

MovedAsDue(e) ==
    \A d \in Dofs : e.after[d] - e.before[d] = VectorDue(e.cell, e.b_loc, d)

\* C16: every pass of the MPC loops over a slave cell, with kernel output
\* b_loc, changes the vector by +c_i*b_loc[k] at each master m_i of each
\* slave of the cell at local position k and by -b_loc[k] at the slave's own
\* dof, and changes no other entry.
C16_VectorMovement ==
    spec_id = "vec" =>
        \A h \in 1..Len(vlog) : ~vlog[h].skipped => MovedAsDue(vlog[h])

\* the same for the passes that read the cell's own row of the cell-to-slave
\* map
C16_VectorMovementOwnRow ==
    spec_id = "vec" =>
        \A h \in 1..Len(vlog) :
            (~vlog[h].skipped
             /\ vlog[h].sci = PositionIn(mpc.slave_cells, vlog[h].cell))
                => MovedAsDue(vlog[h])

----------------------------------------------------------------------------
\* Properties of the order of Dirichlet zeroing and the transform

DirichletDofsIn(cell) ==
    {d \in CellDofs(cell) : in_numpy_array(bc_array, d)}

\* C17: the rows and columns of Dirichlet dofs are zeroed before the
\* transform: for a Dirichlet dof d of the cell every value inserted in row d
\* or column d is zero; if d is a slave of the cell every coupling between
\* masters of the two slaves of a cell with two slaves is zero, and if d is
\* the only slave of the cell every value inserted at a master is zero.
C17_DirichletBeforeTransform ==
    \A cell \in Cells :
        Assembled(cell) =>
            \A d \in DirichletDofsIn(cell) :
                /\ \A i \in 1..Len(log[cell]) :
                      (log[cell][i].row = d \/ log[cell][i].col = d)
                          => log[cell][i].val = 0
                /\ d \in SlaveDofsIn(cell) =>
                      \A i \in 1..Len(log[cell]) :
                          ((Cardinality(SlaveDofsIn(cell)) = 2
                               /\ log[cell][i].kind = "cross")
                           \/ (SlaveDofsIn(cell) = {d} /\ log[cell][i].kind # "local"))
                              => log[cell][i].val = 0

\* a Dirichlet dof that is one of two slaves of an assembled cell, with a
\* coefficient that is not zero
C17_Witness ==
    \E cell \in Cells :
        /\ Assembled(cell)
        /\ Cardinality(SlaveDofsIn(cell)) = 2
        /\ \E d \in DirichletDofsIn(cell) \cap SlaveDofsIn(cell) :
              \E h \in 1..Len(coeffs_of(mpc, SlaveIndexOf(d))) :
                  coeffs_of(mpc, SlaveIndexOf(d))[h] # 0
        /\ \E i \in 1..Len(log[cell]) : log[cell][i].kind = "cross"

\* a Dirichlet dof that is the only slave of an assembled cell
C17_WitnessSingle ==
    \E cell \in Cells :
        /\ Assembled(cell)
        /\ \E d \in DirichletDofsIn(cell) :
              /\ SlaveDofsIn(cell) = {d}
              /\ coeffs_of(mpc, SlaveIndexOf(d)) = <<Den>>

----------------------------------------------------------------------------
\* Properties of the order of the exchanges

\* the messages a step sends or receives
Moved == (chan' \ chan) \cup (chan \ chan')

\* the rank whose send or receive moves the message
Actor(m) == IF m \in chan THEN m.dst ELSE m.src

\* the tag of the exchange a rank is in
PhaseOf(position) ==
    CASE position \in {"collide", "recv_collisions"} -> 0
      [] position = "recv_masters" -> 1
      [] OTHER -> 5

----------------------------------------------------------------------------
\* Properties of the order of receive and flatten_ghosts

\* the step in which rank p calls flatten_ghosts
Flattens(p) == gpc[p] # "done" /\ gpc'[p] = "done"

\* C19: a rank calls flatten_ghosts only after it has received, by a receive
\* from the owner with tag 5, the list of every slave it holds as a ghost.
C19_ReceiveBeforeFlatten ==
    [][\A p \in Procs :
          Flattens(p) =>
             \A s \in Range(ghost_slaves(layout, p)) :
                /\ ghost_ranks(layout, s) \in received[p]
                /\ GlobalSlave(s) \in DOMAIN ghost_masters[p]
                /\ \A m \in chan :
                      ~(m.src = ghost_ranks(layout, s) /\ m.dst = p /\ m.tag = 5)]_vars

\* a rank with ghost slaves of two owners has called flatten_ghosts
C19_Witness ==
    /\ spec_id = "ghost"
    /\ \E p \in Procs :
          /\ gpc[p] = "done"
          /\ Cardinality(ghost_recv(layout, p)) = 2
          /\ flat[p].raised = ""

----------------------------------------------------------------------------
\* Properties of the pass over exterior facets

\* the slaves of row sci of the cell-to-slave map, as global indices
RowSlaves(sci) ==
    {At(mpc.slaves, i) : i \in Range(global_slave_indices_of(mpc, sci))}

\* C20: in the pass over exterior facets a facet whose cell holds no slave is
\* skipped, the kernel not called and the vector left as it is; for a facet
\* of a slave cell the row of the cell-to-slave map that is read is the row
\* at the cell's position in slave_cells, the slaves moved are the slaves
\* of that cell, and the kernel is the facet kernel of that facet.
C20_FacetPass ==
    spec_id = "vec" =>
        \A h \in 1..Len(vlog) :
            vlog[h].pass = "facet" =>
                IF SlaveDofsIn(vlog[h].cell) = {}
                THEN /\ vlog[h].skipped
                     /\ vlog[h].b_loc = <<>>
                     /\ vlog[h].after = vlog[h].before
                ELSE /\ ~vlog[h].skipped
                     /\ At(mpc.slave_cells, vlog[h].sci) = vlog[h].cell
                     /\ RowSlaves(vlog[h].sci)
                           = {At(global_indices, d) : d \in SlaveDofsIn(vlog[h].cell)}
                     /\ \E f \in Loc :
                           vlog[h].b_loc = facet_kernel(vlog[h].cell, f)
                     /\ MovedAsDue(vlog[h])

\* a facet of a cell without slaves has been skipped and a facet of a slave
\* cell whose position in slave_cells is not its number has moved something
C20_Witness ==
    /\ spec_id = "vec"
    /\ \E h \in 1..Len(vlog), k \in 1..Len(vlog) :
          /\ vlog[h].pass = "facet" /\ vlog[h].skipped
          /\ vlog[k].pass = "facet" /\ ~vlog[k].skipped
          /\ vlog[k].sci # vlog[k].cell
          /\ vlog[k].after # vlog[k].before

----------------------------------------------------------------------------
\* Properties of the running counter of the matrix assembly

\* the constraint tables with slave_cells in every order of the slave cells,
\* the rows of the cell-to-slave map in the order of slave_cells
OrderedTables ==
    UNION {{PackMpc(S, T, o) : T \in Tables(S),
                               o \in Orderings(Range(SlaveCellsOf(S)))} :
              S \in SlaveSets}

InitMatOrder ==
    /\ spec_id = "mat"
    /\ form = "symmetric"
    /\ dofmap = DofArray
    /\ global_indices = GlobalIndices
    /\ mpc \in OrderedTables
    /\ bc_array = <<>>
    /\ pc = "cells"
    /\ cell_index = 0
    /\ slave_cell_index = 0
    /\ A = ZeroMatrix(global_indices)
    /\ log = [c \in Cells |-> <<>>]
    /\ diag_dofs = {}
    /\ active_cells = <<>>
    /\ facet_info = <<>>
    /\ b = <<>>
    /\ it = 0
    /\ vlog = <<>>
    /\ layout = <<>>
    /\ possible_recv = <<>>
    /\ owners = <<>>
    /\ eager = TRUE
    /\ gpc = <<>>
    /\ share_masters = <<>>
    /\ sent = <<>>
    /\ chan = {}
    /\ received = <<>>
    /\ ghost_masters = <<>>
    /\ flat = <<>>

SpecMatOrder == InitMatOrder /\ [][NextMat]_vars

\* the counter modify_mpc_cell was called with for the last cell of the loop
CounterUsed == slave_cell_index - 1

Ascending(array) ==
    \A i, j \in 1..Len(array) : i < j => array[i] < array[j]

\* C21: whenever modify_mpc_cell is called for a cell the running counter
\* slave_cell_index is the position of the cell in slave_cells, whatever
\* the order of slave_cells.
C21_CounterIsPosition ==
    (spec_id = "mat" /\ cell_index > 0 /\ IsSlaveCell(LastCell))
        => CounterUsed = PositionIn(mpc.slave_cells, LastCell)

\* the same for the arrays that list the slave cells in ascending order
C21_CounterIsPositionAscending ==
    (spec_id = "mat" /\ cell_index > 0 /\ IsSlaveCell(LastCell)
     /\ Ascending(mpc.slave_cells))
        => CounterUsed = PositionIn(mpc.slave_cells, LastCell)

----------------------------------------------------------------------------
\* Properties of the index of the pass over cells of the vector assembly

\* C22: in the pass over the cells of the integral the index passed to
\* modify_mpc_contributions for a cell is the position of the cell in
\* slave_cells, and the slaves moved are those of the cell, also when the
\* active cells are a part of the cells or in another order than slave_cells.
C22_IndexIsPosition ==
    spec_id = "vec" =>
        \A h \in 1..Len(vlog) :
            vlog[h].pass = "cell" =>
                /\ At(mpc.slave_cells, vlog[h].sci) = vlog[h].cell
                /\ RowSlaves(vlog[h].sci)
                      = {At(global_indices, d) : d \in SlaveDofsIn(vlog[h].cell)}

\* the same for the integrals whose active cells hold the slave cells in the
\* order of slave_cells
C22_IndexIsPositionAllSlaveCells ==
    (spec_id = "vec"
     /\ slave_active_cells(active_cells, mpc.slave_cells) = mpc.slave_cells)
        => \A h \in 1..Len(vlog) :
              vlog[h].pass = "cell" =>
                  /\ At(mpc.slave_cells, vlog[h].sci) = vlog[h].cell
                  /\ RowSlaves(vlog[h].sci)
                        = {At(global_indices, d) : d \in SlaveDofsIn(vlog[h].cell)}

----------------------------------------------------------------------------
\* Properties of the termination of the ghost push

\* the ghost push with every rank going on whenever it can: a rank stops
\* only in a send or a receive that MPI does not complete
SpecGhostLive == InitGhost /\ [][NextGhost]_vars /\ WF_vars(NextGhost)

\* every rank has left its loop of receives and called flatten_ghosts
PushDone == \A p \in Procs : gpc[p] = "done"

\* C23: the ghost push terminates: for every partition of the slaves among
\* owners and ghosting ranks every rank completes its sends and then its
\* receives with tag 5.
C23_PushTerminates == <>PushDone

\* the same where MPI buffers the sends
C23_PushTerminatesBuffered == eager => <>PushDone

\* every rank has made all of its sends when it completes a receive, and a
\* receive takes a message its owner sent
C23_SendsBeforeReceives ==
    [][\A p \in Procs :
          received'[p] # received[p] =>
             /\ sent[p] = Len(share_masters[p])
             /\ \A o \in received'[p] \ received[p] :
                   \E k \in 1..Len(share_masters[o]) :
                      /\ share_masters[o][k].dest = p
                      /\ k <= sent'[o]]_vars

====
